---- MODULE Spec2Model ----
(***************************************************************************)
(* Watch-Finder: the streaming-availability lookup of src/script.js (the   *)
(* browser side) and of the relay function in src/unnamed/part_000.        *)
(*                                                                         *)
(* Spec     the page: submit, metadata responses, country-tag clicks and   *)
(*          enrichment responses.                                          *)
(* LiveSpec Spec with the fairness of the browser's task queue.            *)
(* AggSpec  displayResults as a function of the provider data it is given. *)
(* ScrapeSpec one enrichment request from the client's fetch to the        *)
(*          updated dropdown, as a function of the page and the network.   *)
(* SortSpec the country tags of one provider item.                         *)
(* RelaySpec the relay's handler as a function of its environment, the    *)
(*          request and what the upstream does.                            *)
(* SearchSpec the search side of the page: the input listener, its         *)
(*          debounce timer, the autocomplete list, submit and the metadata *)
(*          responses.                                                     *)
(* LiveSearchSpec SearchSpec with metadata calls that settle.              *)
(***************************************************************************)
EXTENDS Integers, Sequences, FiniteSets, TLC

VARIABLES
    aggIn,          \* AggSpec: the allProviders argument handed to displayResults
    aggOut,         \* AggSpec: what displayResults rendered for aggIn
    scrapeIn,       \* ScrapeSpec: one enrichment request and what the network does to it
    scrapeOut,      \* ScrapeSpec: the fetches made, the data returned and the dropdown updated
    sortIn,         \* SortSpec: the countries Set of one provider, in insertion order
    sortOut,        \* SortSpec: the tags rendered for sortIn
    relayIn,        \* RelaySpec: the key in the environment, the request and the upstream outcome
    relayOut,       \* RelaySpec: the upstream requests made and the response sent
    autocompleteContainer, \* SearchSpec: display and items of the autocomplete list
    debounceTimer,  \* SearchSpec: <<>> or the query the pending timer will look up
    autocompleteCalls, \* SearchSpec: autocomplete calls awaiting their response
    searchHistory,  \* SearchSpec: calls issued; whether a submit followed the last input event
    inputValue,     \* input.value
    selectedContent,\* the selectedContent global: <<>> (null) or <<item>>
    searchDisabled, \* searchButton.disabled
    loaderShown,    \* loader.style.display = 'block'
    pending,        \* the awaited metadata call of the running submit handler
    results,        \* resultsContainer: the title, the message and the provider items in it
    dropdowns,      \* the dropdown elements in the document or held by a suspended click listener
    inflight,       \* enrichment fetches awaiting their response, per dropdown
    fetched,        \* enrichment fetches issued so far, per dropdown
    lastEvent       \* the last step taken and what it observed

vars == <<aggIn, aggOut, scrapeIn, scrapeOut, sortIn, sortOut, relayIn, relayOut,
          autocompleteContainer, debounceTimer, autocompleteCalls, searchHistory,
          inputValue, selectedContent, searchDisabled, loaderShown, pending, results, dropdowns, inflight, fetched, lastEvent>>

uiVars == <<inputValue, selectedContent, searchDisabled, loaderShown,
            pending, results, dropdowns, inflight, fetched, lastEvent>>

aggVars == <<aggIn, aggOut>>

scrapeVars == <<scrapeIn, scrapeOut>>

sortVars == <<sortIn, sortOut>>

relayVars == <<relayIn, relayOut>>

\* The variables of the specifications of single functions.
pureVars == <<aggVars, scrapeVars, sortVars, relayVars>>

autoVars == <<autocompleteContainer, debounceTimer, autocompleteCalls, searchHistory>>

\* The variables that the handlers of Spec never touch: those of the
\* specifications of single functions and of the autocomplete list.
fnVars == <<pureVars, autoVars>>

(***************************************************************************)
(* Bounds of the model.                                                    *)
(***************************************************************************)
MaxCountries == 2   \* countries in one provider-data input explored by AggSpec
MaxOffers == 2      \* offers in one flatrate list
MaxInflight == 2    \* enrichment fetches awaiting a response at one time
MaxCarried == 1     \* of them, those a new search may leave behind
MaxSections == 2    \* .ott_provider sections of a page explored section by section
MaxLis == 2         \* offers of the stream section of a page explored offer by offer
MaxTags == 3        \* countries of one provider item explored by SortSpec
MaxAutocomplete == 2 \* autocomplete calls issued in one run of SearchSpec

(***************************************************************************)
(* Sequence helpers.                                                       *)
(***************************************************************************)
Range(s) == {s[i] : i \in 1..Len(s)}

SeqsUpTo(S, n) == UNION {[1..k -> S] : k \in 0..n}

IsInjective(s) == \A i, j \in 1..Len(s) : s[i] = s[j] => i = j

Max(a, b) == IF a >= b THEN a ELSE b

Min(a, b) == IF a <= b THEN a ELSE b

(***************************************************************************)
(* Countries.                                                              *)
(***************************************************************************)
\* The allow-list, restricted to the codes the model uses.
JUSTWATCH_SUPPORTED_COUNTRIES == {"GB", "US"}

CountryCodes == {"GB", "US", "XK"}

\* The codes SortSpec draws from: QQ is a region code without a display
\* name, qq the same code in lower case.
SortCodes == CountryCodes \cup {"QQ", "qq"}

\* code.toUpperCase()
ToUpperCase(code) ==
    CASE code = "qq" -> "QQ"
      [] OTHER -> code

\* getCountryName without the toUpperCase of the code.
getCountryNameAsGiven(code) ==
    CASE code = "US" -> "United States"
      [] code = "GB" -> "United Kingdom"
      [] code = "XK" -> "Kosovo"
      [] OTHER -> code

\* Intl.DisplayNames(['en'], {type: 'region'}).of(code.toUpperCase()), which
\* gives back a code it has no name for; the catch block does the same.
getCountryName(code) ==
    CASE ToUpperCase(code) = "US" -> "United States"
      [] ToUpperCase(code) = "GB" -> "United Kingdom"
      [] ToUpperCase(code) = "XK" -> "Kosovo"
      [] OTHER -> ToUpperCase(code)

\* The position of a display name under String.prototype.localeCompare.
NameRank(name) ==
    CASE name = "Kosovo" -> 1
      [] name = "QQ" -> 2
      [] name = "United Kingdom" -> 3
      [] name = "United States" -> 4
      [] OTHER -> 5

localeCompare(a, b) == NameRank(a) - NameRank(b)

(***************************************************************************)
(* The provider data of the metadata API (the results field of             *)
(* <kind>/<id>/watch/providers): an object keyed by country code; each     *)
(* country may carry a flatrate list and other tiers (rent).               *)
(***************************************************************************)
Disney == [provider_id |-> 9, provider_name |-> "Disney Plus", logo_path |-> "/d.png"]

Netflix == [provider_id |-> 8, provider_name |-> "Netflix", logo_path |-> "/n.png"]

NetflixBasic == [provider_id |-> 8, provider_name |-> "Netflix basic", logo_path |-> "/nb.png"]

Offers == {Disney, Netflix, NetflixBasic}

RentOffer == [provider_id |-> 2, provider_name |-> "Apple TV", logo_path |-> "/a.png"]

\* The subscription offers a country can list: provider 8 goes by another
\* name and logo in GB.
OffersIn(code) == {Disney, IF code = "GB" THEN NetflixBasic ELSE Netflix}

\* One country's value: flatrate is <<>> when the key is missing, <<list>>
\* otherwise; rent likewise.
CountryValues(code) ==
    [flatrate : {<<>>} \cup {<<l>> : l \in SeqsUpTo(OffersIn(code), MaxOffers)},
     rent : {<<>>, <<RentOffer>>}]

\* The values an object with the keys ks[i..] can hold.
RECURSIVE ValuesOver(_, _)
ValuesOver(ks, i) ==
    IF i > Len(ks) THEN {<<>>}
    ELSE {(ks[i] :> v) @@ f : v \in CountryValues(ks[i]), f \in ValuesOver(ks, i + 1)}

\* The keys of an object in Object.keys order: insertion order, as the keys
\* are distinct and none is an integer.
KeyOrders == {s \in SeqsUpTo(CountryCodes, MaxCountries) : IsInjective(s)}

(***************************************************************************)
(* displayResults: grouping, sorting and rendering.                        *)
(***************************************************************************)
\* An array in place of the Set: a repeated country is added again.
SetAddRepeats(countries, code) == Append(countries, code)

\* A JavaScript Set of country codes: insertion order, no duplicates.
SetAdd(countries, code) ==
    IF code \in Range(countries) THEN countries ELSE Append(countries, code)

\* allProviders[countryCode].flatrate, when truthy (an empty list is truthy).
FlatrateOf(value) == IF value.flatrate = <<>> THEN <<>> ELSE value.flatrate[1]

EmptyProviderMap == [keys |-> <<>>, val |-> <<>>]

\* The entry rebuilt from every offer: the last name and logo win.
UpsertProviderLastSeen(pm, provider, countryCode) ==
    LET id == provider.provider_id
        known == id \in Range(pm.keys)
        new == [name |-> provider.provider_name, logo |-> provider.logo_path,
                countries |-> SetAdd(IF known THEN pm.val[id].countries ELSE <<>>,
                                     countryCode)]
    IN  [keys |-> IF known THEN pm.keys ELSE Append(pm.keys, id),
         val |-> [k \in Range(pm.keys) \cup {id} |-> IF k = id THEN new ELSE pm.val[k]]]

\* The body of the inner forEach: create the entry on first sight of the
\* provider_id, then add the country to its set.
UpsertProvider(pm, provider, countryCode) ==
    LET id == provider.provider_id
        known == id \in Range(pm.keys)
        old == IF known
               THEN pm.val[id]
               ELSE [name |-> provider.provider_name, logo |-> provider.logo_path,
                     countries |-> <<>>]
        new == [old EXCEPT !.countries = SetAdd(old.countries, countryCode)]
    IN  [keys |-> IF known THEN pm.keys ELSE Append(pm.keys, id),
         val |-> [k \in Range(pm.keys) \cup {id} |-> IF k = id THEN new ELSE pm.val[k]]]

RECURSIVE FoldOffers(_, _, _, _)
FoldOffers(pm, offers, countryCode, i) ==
    IF i > Len(offers) THEN pm
    ELSE FoldOffers(UpsertProvider(pm, offers[i], countryCode), offers, countryCode, i + 1)

RECURSIVE FoldCountries(_, _, _)
FoldCountries(pm, obj, k) ==
    IF k > Len(obj.keys) THEN pm
    ELSE LET code == obj.keys[k]
         IN  FoldCountries(FoldOffers(pm, FlatrateOf(obj.val[code]), code, 1), obj, k + 1)

\* providerMap after the outer forEach.
BuildProviderMap(obj) == FoldCountries(EmptyProviderMap, obj, 1)

\* The keys of providerMap in ascending order: provider ids are integers, and
\* an object enumerates its integer keys in ascending numeric order.
RECURSIVE AscendingKeys(_)
AscendingKeys(S) ==
    IF S = {} THEN <<>>
    ELSE LET m == CHOOSE x \in S : \A y \in S : x <= y
         IN  <<m>> \o AscendingKeys(S \ {m})

\* The values in the order in which the keys were inserted.
ObjectValuesInsertionOrder(pm) ==
    [i \in 1..Len(pm.keys) |-> [id |-> pm.keys[i], name |-> pm.val[pm.keys[i]].name,
                                logo |-> pm.val[pm.keys[i]].logo,
                                countries |-> pm.val[pm.keys[i]].countries]]

\* Object.values(providerMap); the key is kept beside the value to name the entry.
ObjectValues(pm) ==
    LET ks == AscendingKeys(Range(pm.keys))
    IN  [i \in 1..Len(ks) |-> [id |-> ks[i], name |-> pm.val[ks[i]].name,
                               logo |-> pm.val[ks[i]].logo,
                               countries |-> pm.val[ks[i]].countries]]

\* Array.prototype.sort is stable: an element goes behind every element that
\* does not compare greater than it.
RECURSIVE InsertBy(_, _, _, _)
InsertBy(cmp(_, _), e, s, i) ==
    IF i > Len(s) THEN Append(s, e)
    ELSE IF cmp(s[i], e) > 0
         THEN SubSeq(s, 1, i - 1) \o <<e>> \o SubSeq(s, i, Len(s))
         ELSE InsertBy(cmp, e, s, i + 1)

RECURSIVE SortBy(_, _, _, _)
SortBy(cmp(_, _), s, acc, i) ==
    IF i > Len(s) THEN acc
    ELSE SortBy(cmp, s, InsertBy(cmp, s[i], acc, 1), i + 1)

BySizeDescending(a, b) == Len(b.countries) - Len(a.countries)

ByCountryName(a, b) == localeCompare(getCountryName(a), getCountryName(b))

\* sortedProviders
SortProviders(pm) == SortBy(BySizeDescending, ObjectValues(pm), <<>>, 1)

\* sortedCountries of one provider
SortCountries(countries) == SortBy(ByCountryName, countries, <<>>, 1)

\* The tags of one provider item with a dropdown for every code.
TagsOfAllClickable(provider) ==
    LET sc == SortCountries(provider.countries)
    IN  [i \in 1..Len(sc) |->
            [code |-> sc[i], text |-> getCountryName(sc[i]), hasDropdown |-> TRUE]]

\* The tags of one provider item: a dropdown only for an allow-listed code.
TagsOf(provider) ==
    LET sc == SortCountries(provider.countries)
    IN  [i \in 1..Len(sc) |->
            [code |-> sc[i], text |-> getCountryName(sc[i]),
             hasDropdown |-> sc[i] \in JUSTWATCH_SUPPORTED_COUNTRIES]]

Rendering(raised, msg, sorted) ==
    [raised |-> raised, msg |-> msg,
     items |-> [i \in 1..Len(sorted) |->
                  [id |-> sorted[i].id, name |-> sorted[i].name, logo |-> sorted[i].logo,
                   size |-> Len(sorted[i].countries), tags |-> TagsOf(sorted[i])]]]

\* displayResults without the check of an empty providerMap.
DisplayResultsUnchecked(allProviders) ==
    IF allProviders = <<>> \/ Len(allProviders[1].keys) = 0
    THEN Rendering(FALSE, "not available on streaming services in any country", <<>>)
    ELSE Rendering(FALSE, "", SortProviders(BuildProviderMap(allProviders[1])))

\* displayResults(titleName, year, mediaType, allProviders, tmdbId): what ends
\* up in resultsContainer below the title block.
DisplayResults(allProviders) ==
    IF allProviders = <<>> \/ Len(allProviders[1].keys) = 0
    THEN Rendering(FALSE, "not available on streaming services in any country", <<>>)
    ELSE LET pm == BuildProviderMap(allProviders[1])
         IN  IF Len(pm.keys) = 0
             THEN Rendering(FALSE, "not available on any subscription streaming service", <<>>)
             ELSE Rendering(FALSE, "", SortProviders(pm))

(***************************************************************************)
(* AggSpec: displayResults applied to every provider-data input within the *)
(* bounds.                                                                 *)
(***************************************************************************)
NotRendered == [done |-> FALSE, out |-> Rendering(FALSE, "", <<>>)]

Aggregate ==
    /\ ~aggOut.done
    /\ aggOut' = [done |-> TRUE, out |-> DisplayResults(aggIn)]
    /\ UNCHANGED <<aggIn, uiVars, scrapeVars, sortVars, relayVars, autoVars>>

(***************************************************************************)
(* The relay's scrapeTmdbWatchPage: the page as the selectors see it.      *)
(*   links     the hrefs of the anchors matching                           *)
(*             '.ott_title + p a[href*="justwatch.com"]', in document order*)
(*   sections  the .ott_provider blocks: the text of the first h3 (<<>>    *)
(*             when there is none) and the 'ul.providers > li' entries,    *)
(*             each with the title of its first anchor (<<>> when there is *)
(*             no anchor or no title; a title is a sequence of characters) *)
(*             and its class list.                                         *)
(***************************************************************************)
QualityClasses == {"ott_filter_4k", "ott_filter_hd", "ott_filter_sd"}

\* typeElement.textContent.trim().toLowerCase()
TrimLower(text) ==
    CASE text \in {"Stream", " Stream ", "STREAM", "stream"} -> "stream"
      [] text \in {"Rent", " Rent "} -> "rent"
      [] text \in {"Buy", " Buy "} -> "buy"
      [] OTHER -> text

\* The start positions at which /on (.*)$/ can match.
OnPositions(title) ==
    {i \in 1..(Len(title) - 2) :
        title[i] = "o" /\ title[i + 1] = "n" /\ title[i + 2] = " "}

\* link.title.match(/on (.*)$/): the leftmost match, group 1 running to the end.
MatchOn(title) ==
    IF OnPositions(title) = {} THEN [matched |-> FALSE, name |-> <<>>]
    ELSE LET i == CHOOSE x \in OnPositions(title) : \A y \in OnPositions(title) : x <= y
         IN  [matched |-> TRUE, name |-> SubSeq(title, i + 3, Len(title))]

EmptyInfo == [keys |-> <<>>, val |-> <<>>]

\* The provider names that are properties of Object.prototype, for which
\* providersInfo[providerName] of the empty object literal is already truthy.
InheritedNames == {<<"c", "o", "n", "s", "t", "r", "u", "c", "t", "o", "r">>}

\* The three classList checks of one li, in the order of the code.
AddQualities(stream, classes) ==
    LET s1 == IF "ott_filter_4k" \in classes THEN SetAdd(stream, "4K") ELSE stream
        s2 == IF "ott_filter_hd" \in classes THEN SetAdd(s1, "HD") ELSE s1
    IN  IF "ott_filter_sd" \in classes THEN SetAdd(s2, "SD") ELSE s2

\* The body of offerElements.forEach with a new Set for every offer.
AddOfferOverwrites(info, li) ==
    IF li.title = <<>> \/ Len(li.title[1]) = 0 THEN info
    ELSE LET m == MatchOn(li.title[1])
         IN  IF ~m.matched \/ Len(m.name) = 0 THEN info
             ELSE IF m.name \in InheritedNames THEN info
             ELSE [keys |-> IF m.name \in Range(info.keys) THEN info.keys
                            ELSE Append(info.keys, m.name),
                   val |-> [k \in Range(info.keys) \cup {m.name} |->
                              IF k = m.name THEN AddQualities(<<>>, li.classes)
                              ELSE info.val[k]]]

\* The body of offerElements.forEach.
AddOffer(info, li) ==
    IF li.title = <<>> \/ Len(li.title[1]) = 0 THEN info
    ELSE LET m == MatchOn(li.title[1])
         IN  IF ~m.matched \/ Len(m.name) = 0 THEN info
             ELSE IF m.name \in InheritedNames THEN info
             ELSE LET known == m.name \in Range(info.keys)
                      old == IF known THEN info.val[m.name] ELSE <<>>
                  IN  [keys |-> IF known THEN info.keys ELSE Append(info.keys, m.name),
                       val |-> [k \in Range(info.keys) \cup {m.name} |->
                                  IF k = m.name THEN AddQualities(old, li.classes)
                                  ELSE info.val[k]]]

RECURSIVE FoldLis(_, _, _)
FoldLis(info, lis, i) ==
    IF i > Len(lis) THEN info ELSE FoldLis(AddOffer(info, lis[i]), lis, i + 1)

\* The body of providerSections.forEach without the test of the heading.
AddSectionAnyHeading(info, section) ==
    IF section.h3 = <<>> THEN info
    ELSE FoldLis(info, section.lis, 1)

\* The body of providerSections.forEach.
AddSection(info, section) ==
    IF section.h3 = <<>> THEN info
    ELSE IF TrimLower(section.h3[1]) # "stream" THEN info
         ELSE FoldLis(info, section.lis, 1)

RECURSIVE FoldSections(_, _, _)
FoldSections(info, sections, i) ==
    IF i > Len(sections) THEN info
    ELSE FoldSections(AddSection(info, sections[i]), sections, i + 1)

EmptyData == [justWatchUrl |-> <<>>, providersInfo |-> EmptyInfo]

\* The try block after the fetch: the first matching link and the quality map.
ExtractPage(page) ==
    [justWatchUrl |-> IF Len(page.links) = 0 THEN <<>> ELSE <<page.links[1]>>,
     providersInfo |-> FoldSections(EmptyInfo, page.sections, 1)]

\* An offer of a stream section whose provider name is inherited and whose
\* li carries a quality class: providersInfo[providerName].stream is
\* undefined and the call of add on it is a TypeError.
TypeErrorIn(page) ==
    \E i \in 1..Len(page.sections) :
        /\ page.sections[i].h3 # <<>>
        /\ TrimLower(page.sections[i].h3[1]) = "stream"
        /\ \E j \in 1..Len(page.sections[i].lis) :
              LET li == page.sections[i].lis[j]
              IN  /\ li.title # <<>>
                  /\ MatchOn(li.title[1]).matched
                  /\ MatchOn(li.title[1]).name \in InheritedNames
                  /\ li.classes \cap QualityClasses # {}

\* The try block of the relay's scrapeTmdbWatchPage. upstream is what the
\* fetch of the page did: net "error" (the fetch rejected) or a response with
\* ok and the page.
TryScrape(upstream) ==
    IF upstream.net = "error" \/ ~upstream.ok \/ TypeErrorIn(upstream.page)
    THEN [raised |-> TRUE, data |-> EmptyData]
    ELSE [raised |-> FALSE, data |-> ExtractPage(upstream.page)]

\* The relay's scrapeTmdbWatchPage without its catch block.
RelayScrapeOutcomeNoCatch(upstream) == TryScrape(upstream)

\* The relay's scrapeTmdbWatchPage(url, context): what it returns, or that it
\* raised.
RelayScrapeOutcome(upstream) ==
    IF TryScrape(upstream).raised THEN [raised |-> FALSE, data |-> EmptyData]
    ELSE TryScrape(upstream)

RelayScrape(upstream) == RelayScrapeOutcome(upstream).data

\* module.exports for a request with a url parameter and no endpoint.
RelayHandleUrl(keySet, upstream) ==
    IF ~keySet \/ RelayScrapeOutcome(upstream).raised
    THEN [status |-> 500, json |-> FALSE, body |-> EmptyData]
    ELSE [status |-> 200, json |-> TRUE, body |-> RelayScrape(upstream)]

(***************************************************************************)
(* The client's scrapeTmdbWatchPage(tmdbWatchUrl). net is "error" when the *)
(* fetch of /api/tmdb rejected; otherwise response is what arrived; json   *)
(* tells whether response.json() can parse the body.                       *)
(***************************************************************************)
ResponseOk(response) == response.status >= 200 /\ response.status <= 299

\* The client's scrapeTmdbWatchPage without its try/catch.
ScrapeTmdbWatchPageNoCatch(net, response) ==
    IF net = "error" THEN [raised |-> TRUE, data |-> EmptyData]
    ELSE IF ~ResponseOk(response) THEN [raised |-> FALSE, data |-> EmptyData]
    ELSE IF ~response.json THEN [raised |-> TRUE, data |-> EmptyData]
    ELSE [raised |-> FALSE, data |-> response.body]

ScrapeTmdbWatchPage(net, response) ==
    IF net = "error" THEN [raised |-> FALSE, data |-> EmptyData]
    ELSE IF ~ResponseOk(response) THEN [raised |-> FALSE, data |-> EmptyData]
    ELSE IF ~response.json THEN [raised |-> FALSE, data |-> EmptyData]
    ELSE [raised |-> FALSE, data |-> response.body]

(***************************************************************************)
(* The dropdown of a clickable country tag.                                *)
(***************************************************************************)
\* The UTF-16 code unit of a character, for the characters the model uses.
CharCode(c) ==
    CASE c = " " -> 32
      [] c = "D" -> 68
      [] c = "H" -> 72
      [] c = "N" -> 78
      [] c = "n" -> 110
      [] c = "o" -> 111
      [] OTHER -> 0

\* The default comparison of Array.prototype.sort on two strings.
RECURSIVE CompareStrings(_, _, _)
CompareStrings(a, b, i) ==
    IF i > Len(a) /\ i > Len(b) THEN 0
    ELSE IF i > Len(a) THEN 0 - 1
    ELSE IF i > Len(b) THEN 1
    ELSE IF CharCode(a[i]) # CharCode(b[i]) THEN CharCode(a[i]) - CharCode(b[i])
    ELSE CompareStrings(a, b, i + 1)

DefaultCompare(a, b) == CompareStrings(a, b, 1)

\* createDropdown(mediaType, tmdbId, code)
CreateDropdown(mediaType, tmdbId, code) ==
    [url |-> [mediaType |-> mediaType, tmdbId |-> tmdbId, locale |-> code],
     show |-> FALSE,
     jwStatus |-> "loading", jwHref |-> "#", jwText |-> "Loading JustWatch...",
     qStatus |-> "loading", qText |-> "Loading quality info...", qItems |-> <<>>]

\* updateDropdownContent returning early, before the status is set, when there
\* is neither a link nor quality information.
UpdateDropdownContentSkipsEmpty(dropdown, justWatchUrl, providersInfo) ==
    IF justWatchUrl = <<>> /\ Len(providersInfo.keys) = 0 THEN dropdown
    ELSE [dropdown EXCEPT
            !.jwHref = IF justWatchUrl # <<>> THEN justWatchUrl[1] ELSE "#",
            !.jwText = IF justWatchUrl # <<>> THEN "View on JustWatch"
                       ELSE "JustWatch link not found",
            !.jwStatus = "loaded",
            !.qText = "",
            !.qItems = <<>>,
            !.qStatus = "loaded"]

\* updateDropdownContent(dropdown, justWatchUrl, providersInfo)
UpdateDropdownContent(dropdown, justWatchUrl, providersInfo) ==
    LET hasQualityInfo == Len(providersInfo.keys) > 0
        sortedProviderNames == SortBy(DefaultCompare, providersInfo.keys, <<>>, 1)
        HasStream(name) == Len(providersInfo.val[name]) > 0
        shown == SelectSeq(sortedProviderNames, HasStream)
    IN  [dropdown EXCEPT
            !.jwHref = IF justWatchUrl # <<>> THEN justWatchUrl[1] ELSE "#",
            !.jwText = IF justWatchUrl # <<>> THEN "View on JustWatch"
                       ELSE "JustWatch link not found",
            !.jwStatus = "loaded",
            !.qText = IF hasQualityInfo THEN "" ELSE "No streaming quality info.",
            !.qItems = IF hasQualityInfo
                       THEN [i \in 1..Len(shown) |->
                               [provider |-> shown[i], tags |-> providersInfo.val[shown[i]]]]
                       ELSE <<>>,
            !.qStatus = "loaded"]

(***************************************************************************)
(* The page.                                                               *)
(***************************************************************************)
\* What the metadata API can return to the page in this model.
Movie == [id |-> 1, media_type |-> "movie", title |-> "dune"]

Show == [id |-> 2, media_type |-> "tv", title |-> "dune"]

Person == [id |-> 3, media_type |-> "person", title |-> "dune"]

SearchResults == {<<>>, <<Movie>>}

Suggestions == {Show}

InputValues == {" ", "dune"}

\* String.prototype.trim on the values the input can hold.
Trim(v) == CASE v = " " -> "" [] v = " dune " -> "dune" [] OTHER -> v

\* Provider data with US under two providers and XK outside the allow-list.
RawTwoProviders ==
    <<[keys |-> <<"US", "XK">>,
       val |-> [c \in {"US", "XK"} |->
                  IF c = "US" THEN [flatrate |-> <<(<<Disney, Netflix>>)>>, rent |-> <<>>]
                  ELSE [flatrate |-> <<(<<Netflix>>)>>, rent |-> <<RentOffer>>]]]>>

RawNoFlatrate ==
    <<[keys |-> <<"US">>,
       val |-> [c \in {"US"} |-> [flatrate |-> <<>>, rent |-> <<RentOffer>>]]]>>

ProviderData == {<<>>, RawNoFlatrate, RawTwoProviders}

\* displayResults for each of them.
RenderingOf == [allProviders \in ProviderData |-> DisplayResults(allProviders)]

\* Watch pages: one with the link and an HD/4K stream offer "on H", one with nothing.
PageFull ==
    [links |-> <<"https://www.justwatch.com/us/movie/dune">>,
     sections |-> <<[h3 |-> <<"Rent">>,
                     lis |-> <<[title |-> <<(<<"o", "n", " ", "N">>)>>,
                                classes |-> {"ott_filter_sd"}]>>],
                    [h3 |-> <<" Stream ">>,
                     lis |-> <<[title |-> <<(<<"o", "n", " ", "H">>)>>,
                                classes |-> {"ott_filter_hd", "ott_filter_4k"}]>>]>>]

PageBare == [links |-> <<>>, sections |-> <<>>]

\* What can happen to one enrichment request between the click and the
\* resumption of the click handler.
EnrichScenarios ==
    { [name |-> "page", net |-> "ok", relay |-> TRUE, keySet |-> TRUE,
       upstream |-> [net |-> "ok", ok |-> TRUE, page |-> PageFull], status |-> 200],
      [name |-> "bare page", net |-> "ok", relay |-> TRUE, keySet |-> TRUE,
       upstream |-> [net |-> "ok", ok |-> TRUE, page |-> PageBare], status |-> 200],
      [name |-> "upstream status", net |-> "ok", relay |-> TRUE, keySet |-> TRUE,
       upstream |-> [net |-> "ok", ok |-> FALSE, page |-> PageFull], status |-> 200],
      [name |-> "upstream network error", net |-> "ok", relay |-> TRUE, keySet |-> TRUE,
       upstream |-> [net |-> "error", ok |-> FALSE, page |-> PageBare], status |-> 200],
      [name |-> "relay without key", net |-> "ok", relay |-> TRUE, keySet |-> FALSE,
       upstream |-> [net |-> "ok", ok |-> TRUE, page |-> PageFull], status |-> 200],
      [name |-> "client network error", net |-> "error", relay |-> FALSE, keySet |-> TRUE,
       upstream |-> [net |-> "ok", ok |-> TRUE, page |-> PageFull], status |-> 200],
      [name |-> "host answers 502", net |-> "ok", relay |-> FALSE, keySet |-> TRUE,
       upstream |-> [net |-> "ok", ok |-> TRUE, page |-> PageFull], status |-> 502],
      [name |-> "host answers 200 without JSON", net |-> "ok", relay |-> FALSE, keySet |-> TRUE,
       upstream |-> [net |-> "ok", ok |-> TRUE, page |-> PageFull], status |-> 200] }

\* The response the client's fetch resolves with: the relay's, or one of the
\* hosting platform in front of it.
ResponseOf(sc) ==
    IF sc.relay THEN RelayHandleUrl(sc.keySet, sc.upstream)
    ELSE [status |-> sc.status, json |-> FALSE, body |-> EmptyData]

\* What the client's scrapeTmdbWatchPage returns in each scenario.
ScrapedIn == [sc \in EnrichScenarios |-> ScrapeTmdbWatchPage(sc.net, ResponseOf(sc))]

FailureScenario(sc) == sc.name \notin {"page", "bare page"}

(***************************************************************************)
(* One enrichment request, from the click listener's call of               *)
(* scrapeTmdbWatchPage to the updated dropdown.                            *)
(***************************************************************************)
\* tmdbLinkUrl of the click listener, cut at its reserved characters.
TmdbLinkUrl(mediaType, tmdbId, code) ==
    <<"https", ":", "/", "/", "www.themoviedb.org", "/", mediaType, "/",
      ToString(tmdbId), "/", "watch", "?", "locale", "=", code>>

\* encodeURIComponent, piece by piece: the reserved characters are escaped.
EscapeOf(c) ==
    CASE c = ":" -> "%3A"
      [] c = "/" -> "%2F"
      [] c = "?" -> "%3F"
      [] c = "=" -> "%3D"
      [] OTHER -> c

encodeURIComponent(url) == [i \in 1..Len(url) |-> EscapeOf(url[i])]

\* The decoding of a query parameter by the function host (req.query.url).
UnescapeOf(c) ==
    CASE c = "%3A" -> ":"
      [] c = "%2F" -> "/"
      [] c = "%3F" -> "?"
      [] c = "%3D" -> "="
      [] OTHER -> c

QueryValue(param) == [i \in 1..Len(param) |-> UnescapeOf(param[i])]

\* functionUrl of the client's scrapeTmdbWatchPage.
FunctionUrl(tmdbWatchUrl) == <<"/api/tmdb?url=">> \o encodeURIComponent(tmdbWatchUrl)

\* proxyUrl of the relay variant that goes through the CORS proxy.
ProxyUrl(url) == <<"https://corsproxy.io/?">> \o encodeURIComponent(url)

\* The two variants of the relay in the source: the one that fetches the page
\* itself and the one that fetches it through the proxy.
RelayVariants == {"direct", "proxy"}

\* The URL the relay's scrapeTmdbWatchPage fetches.
RelayFetchUrl(variant, url) == IF variant = "direct" THEN url ELSE ProxyUrl(url)

\* What a route to the page does with a GET: it serves the page, answers with
\* a failure status, or the connection fails.
RouteOutcomes == {"page", "status", "error"}

Upstream(outcome, page) ==
    [net |-> IF outcome = "error" THEN "error" ELSE "ok", ok |-> outcome = "page",
     page |-> page]

\* A relay that fetches again, up to three times, when the fetch fails.
RelayGetsRetrying(variant, url, outcome) ==
    IF outcome = "page" THEN <<RelayFetchUrl(variant, url)>>
    ELSE <<RelayFetchUrl(variant, url), RelayFetchUrl(variant, url), RelayFetchUrl(variant, url)>>

\* The GETs the relay's scrapeTmdbWatchPage issues: the one await fetch of its
\* try block, whatever becomes of it.
RelayGets(variant, url, outcome) == <<RelayFetchUrl(variant, url)>>

\* The titles of the anchors of an offer: "on N", "on H", a programme name
\* that contains "on " itself ("Don on N"), two spaces before the name, no
\* "on " at all, nothing after "on ", and a name inherited from Object.prototype.
TitleN == <<"o", "n", " ", "N">>

TitleH == <<"o", "n", " ", "H">>

TitleOnInName == <<"D", "o", "n", " ", "o", "n", " ", "N">>

TitleSpaced == <<"o", "n", " ", " ", "N">>

TitleNoOn == <<"N">>

TitleOnOnly == <<"o", "n", " ">>

TitleInherited == <<"o", "n", " ", "c", "o", "n", "s", "t", "r", "u", "c", "t", "o", "r">>

JustWatchHref == "https://www.justwatch.com/us/movie/dune"

\* The offers of the pages explored offer by offer.
OfferLis ==
    [title : {<<TitleN>>, <<TitleH>>, <<TitleOnInName>>, <<TitleSpaced>>},
     classes : SUBSET QualityClasses]

\* Pages with one stream section and every list of offers within the bound.
OfferPages ==
    {[links |-> <<JustWatchHref>>, sections |-> <<[h3 |-> <<" Stream ">>, lis |-> lis]>>] :
        lis \in SeqsUpTo(OfferLis, MaxLis)}

\* The lists of offers of the pages explored section by section: elements
\* missing (no anchor, no title, an empty title, no "on "), and offers that
\* share a provider.
SectionLis ==
    { <<>>,
      <<[title |-> <<TitleN>>, classes |-> {"ott_filter_hd"}]>>,
      <<[title |-> <<TitleH>>, classes |-> {"ott_filter_sd"}],
        [title |-> <<>>, classes |-> {"ott_filter_4k"}]>>,
      <<[title |-> <<TitleNoOn>>, classes |-> {"ott_filter_hd"}],
        [title |-> <<TitleOnOnly>>, classes |-> {"ott_filter_sd"}],
        [title |-> <<(<<>>)>>, classes |-> {}]>>,
      <<[title |-> <<TitleN>>, classes |-> {"ott_filter_sd"}],
        [title |-> <<TitleInherited>>, classes |-> {"ott_filter_hd"}]>>,
      <<[title |-> <<TitleInherited>>, classes |-> {}],
        [title |-> <<TitleN>>, classes |-> {"ott_filter_4k"}]>> }

Headings == {<<>>, <<" Stream ">>, <<"STREAM">>, <<"Rent">>}

\* Pages with any sections within the bound, with and without the link.
SectionPages ==
    {[links |-> links, sections |-> sections] :
        links \in {<<>>, <<JustWatchHref>>},
        sections \in SeqsUpTo([h3 : Headings, lis : SectionLis], MaxSections)}

\* The requests whose network is explored: each variant of the relay, each
\* outcome of each route, the relay with and without its key, the client's
\* own fetch failing or not.
NetworkRequests ==
    [variant : RelayVariants, keySet : BOOLEAN, net : {"ok", "error"},
     routes : [RelayVariants -> RouteOutcomes], page : {PageFull, PageBare}]

\* A request whose network works, for the given page.
Served(variant, page) ==
    [variant |-> variant, keySet |-> TRUE, net |-> "ok",
     routes |-> [v \in RelayVariants |-> "page"], page |-> page]

NotScraped ==
    [done |-> FALSE, gets |-> <<>>, relay |-> <<>>, raised |-> FALSE, data |-> EmptyData,
     dropdown |-> CreateDropdown("movie", Movie.id, "US")]

\* The click listener from its call of scrapeTmdbWatchPage on: the client's
\* fetch of the relay, the relay's handler and scraper, the client's return
\* value and updateDropdownContent.
EnrichOnce(req) ==
    LET tmdbLinkUrl == TmdbLinkUrl("movie", Movie.id, "US")
        functionUrl == FunctionUrl(tmdbLinkUrl)
        urlToScrape == QueryValue(SubSeq(functionUrl, 2, Len(functionUrl)))
        outcome == req.routes[req.variant]
        upstream == Upstream(outcome, req.page)
        scrapes == req.net = "ok" /\ req.keySet
        r == ScrapeTmdbWatchPage(req.net, RelayHandleUrl(req.keySet, upstream))
    IN  [done |-> TRUE,
         gets |-> IF scrapes THEN RelayGets(req.variant, urlToScrape, outcome) ELSE <<>>,
         relay |-> IF scrapes THEN <<RelayScrapeOutcome(upstream)>> ELSE <<>>,
         raised |-> r.raised,
         data |-> r.data,
         dropdown |-> IF r.raised THEN NotScraped.dropdown
                      ELSE UpdateDropdownContent(NotScraped.dropdown, r.data.justWatchUrl,
                                                 r.data.providersInfo)]

ScrapeIdle == scrapeIn = <<>> /\ scrapeOut = NotScraped

\* The click listener of a tag whose fetch has been answered.
Scrape ==
    /\ scrapeIn # <<>>
    /\ ~scrapeOut.done
    /\ scrapeOut' = EnrichOnce(scrapeIn[1])
    /\ UNCHANGED <<scrapeIn, aggVars, sortVars, relayVars, uiVars, autoVars>>

NotSorted == [done |-> FALSE, tags |-> <<>>]

SortIdle == sortIn = <<>> /\ sortOut = NotSorted

\* The sortedCountries.forEach of one provider item.
SortTags ==
    /\ sortIn # <<>>
    /\ ~sortOut.done
    /\ sortOut' = [done |-> TRUE, tags |-> TagsOf([countries |-> sortIn[1]])]
    /\ UNCHANGED <<sortIn, aggVars, scrapeVars, relayVars, uiVars, autoVars>>

(***************************************************************************)
(* The relay's handler (module.exports), for any request. URLs and bodies  *)
(* are sequences of pieces, so that what a piece came from can be traced.  *)
(***************************************************************************)
\* The value of TMDB_API_KEY when it is configured.
ApiKey == "k3y"

\* process.env.TMDB_API_KEY: missing, or the key.
Environments == {<<>>, <<ApiKey>>}

SearchEndpoint == <<"search", "/", "multi">>

ProvidersEndpoint == <<"movie", "/", "1", "/", "watch", "/", "providers">>

\* The query parameters of the client's calls, in the order URLSearchParams
\* gives them.
SearchParams == <<[name |-> "query", value |-> <<"dune">>],
                  [name |-> "page", value |-> <<"1">>]>>

\* new URLSearchParams(params).toString(): each value is escaped.
RECURSIVE QueryString(_, _)
QueryString(params, i) ==
    IF i > Len(params) THEN <<>>
    ELSE <<params[i].name, "=">> \o encodeURIComponent(params[i].value) \o
         (IF i < Len(params) THEN <<"&">> ELSE <<>>) \o QueryString(params, i + 1)

\* The URL callApi fetches.
CallApiUrl(endpoint, params) ==
    <<"/api/tmdb?endpoint=">> \o endpoint \o <<"&">> \o QueryString(params, 1)

\* The requests the client builds: the search, the provider lookup and the
\* enrichment of a country.
ClientUrls ==
    { CallApiUrl(SearchEndpoint, SearchParams),
      CallApiUrl(ProvidersEndpoint, <<>>),
      FunctionUrl(TmdbLinkUrl("movie", Movie.id, "US")) }

\* req.query of the requests the relay can receive: the client's three, one
\* with both parameters and one with neither.
RelayQueries ==
    { [endpoint |-> <<SearchEndpoint>>, url |-> <<>>, rest |-> SearchParams],
      [endpoint |-> <<ProvidersEndpoint>>, url |-> <<>>, rest |-> <<>>],
      [endpoint |-> <<>>, url |-> <<TmdbLinkUrl("movie", Movie.id, "US")>>, rest |-> <<>>],
      [endpoint |-> <<(<<"configuration">>)>>, url |-> <<TmdbLinkUrl("movie", Movie.id, "US")>>,
       rest |-> <<>>],
      [endpoint |-> <<>>, url |-> <<>>, rest |-> SearchParams] }

\* req.query as URLSearchParams sees it: endpoint first, then url, then the rest.
AllParams(query) ==
    (IF query.endpoint = <<>> THEN <<>>
     ELSE <<[name |-> "endpoint", value |-> query.endpoint[1]]>>) \o
    (IF query.url = <<>> THEN <<>> ELSE <<[name |-> "url", value |-> query.url[1]]>>) \o
    query.rest

\* new URLSearchParams(req.query).toString().replace(`endpoint=${endpoint}&`, ''):
\* the escaped text contains the pattern only when escaping left the
\* endpoint as it was and another parameter follows it.
RelayQueryString(query) ==
    LET all == AllParams(query)
        endpoint == query.endpoint[1]
    IN  IF encodeURIComponent(endpoint) = endpoint /\ Len(all) > 1
        THEN QueryString(Tail(all), 1)
        ELSE QueryString(all, 1)

ApiUrl(query) ==
    <<"https://api.themoviedb.org/3/">> \o query.endpoint[1] \o <<"?">> \o
    RelayQueryString(query)

\* A relay that sends the key as a query parameter of the API URL.
ApiRequestKeyInQuery(key, apiUrl) ==
    [url |-> apiUrl \o <<"&api_key=", key>>, headers |-> <<>>]

\* The fetch of the metadata API: the key goes into the Authorization header.
ApiRequest(key, apiUrl) ==
    [url |-> apiUrl,
     headers |-> <<[name |-> "Authorization", value |-> <<"Bearer ", key>>],
                   [name |-> "Accept", value |-> <<"application/json">>]>>]

\* What the metadata API does with the request: it answers with JSON, with a
\* failure status, with a body that is not JSON, or the connection fails.
ApiOutcomes == {"data", "status", "not json", "error"}

\* context.res of the endpoint branch. The messages of node-fetch name the URL
\* of the request.
ApiResponse(request, outcome) ==
    CASE outcome = "data" ->
            [status |-> 200, json |-> TRUE, body |-> <<"results">>]
      [] outcome = "status" ->
            [status |-> 500, json |-> FALSE,
             body |-> <<"An error occurred: ", "TMDB API request failed with status: ", "401">>]
      [] outcome = "not json" ->
            [status |-> 500, json |-> FALSE,
             body |-> <<"An error occurred: ", "invalid json response body at ">> \o request.url]
      [] OTHER ->
            [status |-> 500, json |-> FALSE,
             body |-> <<"An error occurred: ", "request to ">> \o request.url \o <<" failed">>]

\* The strings of the data the url branch answers with.
ScrapedStrings(data) ==
    Range(data.justWatchUrl) \cup
    UNION {Range(name) \cup Range(data.providersInfo.val[name]) :
              name \in Range(data.providersInfo.keys)}

\* module.exports(context, req): the upstream requests it makes, context.res
\* and the strings its body is made of.
RelayHandle(env, variant, query, api, route, page) ==
    IF env = <<>>
    THEN LET res == [status |-> 500, json |-> FALSE,
                     body |-> <<"Server configuration error: TMDB_API_KEY is not set.">>]
         IN  [requests |-> <<>>, res |-> res, strings |-> Range(res.body)]
    ELSE IF query.endpoint # <<>>
    THEN LET request == ApiRequest(env[1], ApiUrl(query))
             res == ApiResponse(request, api)
         IN  [requests |-> <<request>>, res |-> res, strings |-> Range(res.body)]
    ELSE IF query.url # <<>>
    THEN LET gets == RelayGets(variant, query.url[1], route)
             res == RelayHandleUrl(TRUE, Upstream(route, page))
         IN  [requests |-> [i \in 1..Len(gets) |-> [url |-> gets[i], headers |-> <<>>]],
              res |-> res, strings |-> ScrapedStrings(res.body)]
    ELSE LET res == [status |-> 400, json |-> FALSE,
                     body |-> <<"Bad Request: Please provide either an 'endpoint' or a 'url' query parameter.">>]
         IN  [requests |-> <<>>, res |-> res, strings |-> Range(res.body)]

NotHandled ==
    [done |-> FALSE, requests |-> <<>>, strings |-> {},
     res |-> [status |-> 0, json |-> FALSE, body |-> <<>>]]

RelayIdle == relayIn = <<>> /\ relayOut = NotHandled

\* The relay answers the request.
Handle ==
    /\ relayIn # <<>>
    /\ ~relayOut.done
    /\ LET given == relayIn[1]
           out == RelayHandle(given.env, given.variant, given.query, given.api, given.route,
                              given.page)
       IN  relayOut' = [done |-> TRUE, requests |-> out.requests, strings |-> out.strings,
                        res |-> out.res]
    /\ UNCHANGED <<relayIn, aggVars, scrapeVars, sortVars, uiVars, autoVars>>

NoEvent == [op |-> "none", d |-> <<>>, failure |-> FALSE, raised |-> FALSE, data |-> "",
            status |-> ""]

\* resultsContainer holding a message alone, or nothing. A rendering with
\* provider items carries the name of its nodes (slot): dropdown elements are
\* named by the rendering that created them, the provider item and the country.
MessageOnly(title, msg) == [slot |-> 0, title |-> title, msg |-> msg, items |-> <<>>]

ClearedResults == MessageOnly(<<>>, "")

\* The dropdowns of the current document: one per clickable tag in resultsContainer.
DropdownsOf(slot, items) ==
    UNION { {[slot |-> slot, prov |-> i, code |-> items[i].tags[j].code] :
                j \in {k \in 1..Len(items[i].tags) : items[i].tags[k].hasDropdown}} :
            i \in 1..Len(items) }

Attached == DropdownsOf(results.slot, results.items)

Open == {d \in Attached : dropdowns[d].show}

RECURSIVE Sum(_, _)
Sum(f, S) ==
    IF S = {} THEN 0
    ELSE LET x == CHOOSE y \in S : TRUE IN f[x] + Sum(f, S \ {x})

TotalInflight == Sum(inflight, DOMAIN inflight)

\* The dropdowns a suspended click listener holds.
Held == {d \in DOMAIN inflight : inflight[d] > 0}

\* A name for the nodes of a new rendering that no element still held carries.
FreshSlot ==
    CHOOSE n \in 0..MaxInflight :
        /\ \A d \in Held : d.slot # n
        /\ \A m \in 0..(n - 1) : \E d \in Held : d.slot = m

\* An element that is neither in the document nor held by a listener can no
\* longer be reached or changed: the state keeps the others.
Restrict(f, S) == [d \in DOMAIN f \cap S |-> f[d]]

\* The autocomplete list before any input: hidden and empty, no timer, no call.
\* from names the call whose response filled the list (0: none).
AutocompleteInit ==
    /\ autocompleteContainer = [display |-> "none", items |-> <<>>, from |-> 0]
    /\ debounceTimer = <<>>
    /\ autocompleteCalls = {}
    /\ searchHistory = [issued |-> 0, submitted |-> FALSE]

UIInit ==
    /\ inputValue = ""
    /\ selectedContent = <<>>
    /\ searchDisabled = FALSE
    /\ loaderShown = FALSE
    /\ pending = <<>>
    /\ results = ClearedResults
    /\ dropdowns = <<>>
    /\ inflight = <<>>
    /\ fetched = <<>>
    /\ lastEvent = NoEvent
    /\ AutocompleteInit

Init == aggIn = <<>> /\ aggOut = NotRendered /\ ScrapeIdle /\ SortIdle /\ RelayIdle /\ UIInit

\* allProviders: absent (undefined) or an object with its keys and values.
AggInit ==
    /\ \/ aggIn = <<>>
       \/ \E ks \in KeyOrders : \E val \in ValuesOver(ks, 1) :
             aggIn = <<[keys |-> ks, val |-> val]>>
    /\ aggOut = NotRendered
    /\ ScrapeIdle
    /\ SortIdle
    /\ RelayIdle
    /\ UIInit

\* One enrichment request: a page of one of the two families behind a
\* network that works, or a page behind every network.
ScrapeInit ==
    /\ \/ \E variant \in RelayVariants : \E page \in OfferPages \cup SectionPages :
             scrapeIn = <<Served(variant, page)>>
       \/ \E req \in NetworkRequests : scrapeIn = <<req>>
    /\ scrapeOut = NotScraped
    /\ aggIn = <<>>
    /\ aggOut = NotRendered
    /\ SortIdle
    /\ RelayIdle
    /\ UIInit

\* The countries Set of one provider: distinct codes in insertion order.
SortInit ==
    /\ \E countries \in SeqsUpTo(SortCodes, MaxTags) :
          IsInjective(countries) /\ sortIn = <<countries>>
    /\ sortOut = NotSorted
    /\ aggIn = <<>>
    /\ aggOut = NotRendered
    /\ ScrapeIdle
    /\ RelayIdle
    /\ UIInit

\* One request to the relay: any environment, variant and query, and
\* anything the upstream can do.
RelayInit ==
    /\ \E env \in Environments, variant \in RelayVariants, query \in RelayQueries,
          api \in ApiOutcomes, route \in RouteOutcomes, page \in {PageFull, PageBare} :
          relayIn = <<[env |-> env, variant |-> variant, query |-> query, api |-> api,
                       route |-> route, page |-> page]>>
    /\ relayOut = NotHandled
    /\ aggIn = <<>>
    /\ aggOut = NotRendered
    /\ ScrapeIdle
    /\ SortIdle
    /\ UIInit

(***************************************************************************)
(* The handlers of src/script.js.                                          *)
(***************************************************************************)
\* The input listener, as far as input.value goes.
TypeInput(v) ==
    /\ inputValue' = v
    /\ lastEvent' = NoEvent
    /\ UNCHANGED <<selectedContent, searchDisabled, loaderShown, pending, results,
                   dropdowns, inflight, fetched, fnVars>>

\* The submit listener without the line that empties resultsContainer.
SubmitHandlerKeepsResults(value, selected) ==
    IF Trim(value) = ""
    THEN UNCHANGED <<searchDisabled, loaderShown, pending, results,
                     dropdowns, inflight, fetched>>
    ELSE /\ TotalInflight <= MaxCarried
         /\ loaderShown' = TRUE
         /\ searchDisabled' = TRUE
         /\ pending' = IF selected # <<>>
                       THEN <<[call |-> "providers", query |-> Trim(value),
                               content |-> selected[1], selected |-> TRUE]>>
                       ELSE <<[call |-> "search", query |-> Trim(value),
                               content |-> Movie, selected |-> FALSE]>>
         /\ UNCHANGED <<results, dropdowns, inflight, fetched>>

\* The submit listener up to its first await, for the given input.value and
\* selectedContent. A selected suggestion goes straight to fetchContentDetails,
\* a typed query to searchContent.
SubmitHandler(value, selected) ==
    IF Trim(value) = ""
    THEN UNCHANGED <<searchDisabled, loaderShown, pending, results,
                     dropdowns, inflight, fetched>>
    ELSE /\ TotalInflight <= MaxCarried
         /\ results' = ClearedResults
         /\ dropdowns' = Restrict(dropdowns, Held)
         /\ inflight' = Restrict(inflight, Held)
         /\ fetched' = Restrict(fetched, Held)
         /\ loaderShown' = TRUE
         /\ searchDisabled' = TRUE
         /\ pending' = IF selected # <<>>
                       THEN <<[call |-> "providers", query |-> Trim(value),
                               content |-> selected[1], selected |-> TRUE]>>
                       ELSE <<[call |-> "search", query |-> Trim(value),
                               content |-> Movie, selected |-> FALSE]>>

\* A submit event: the button is clicked or Enter is pressed, which a disabled
\* submit button prevents.
Submit ==
    /\ ~searchDisabled
    /\ SubmitHandler(inputValue, selectedContent)
    /\ lastEvent' = NoEvent
    /\ UNCHANGED <<inputValue, selectedContent, fnVars>>

\* The click listener of an autocomplete item: searchButton.click() runs the
\* submit listener unless the button is disabled.
SuggestionClick(item) ==
    /\ selectedContent' = <<item>>
    /\ inputValue' = item.title
    /\ IF searchDisabled
       THEN UNCHANGED <<searchDisabled, loaderShown, pending, results,
                        dropdowns, inflight, fetched>>
       ELSE SubmitHandler(item.title, <<item>>)
    /\ lastEvent' = NoEvent
    /\ UNCHANGED fnVars

\* A finally block that hides the loader and leaves the button disabled.
FinallyLoaderOnly ==
    /\ loaderShown' = FALSE
    /\ searchDisabled' = searchDisabled
    /\ pending' = <<>>

\* The finally block of the submit listener.
Finally ==
    /\ loaderShown' = FALSE
    /\ searchDisabled' = FALSE
    /\ pending' = <<>>

\* A submit listener that, when a call fails, starts over with
\* searchContent(query) instead of giving up.
ApiFailureRetries ==
    /\ pending # <<>>
    /\ pending' = <<[pending[1] EXCEPT !.call = "search", !.selected = FALSE]>>
    /\ UNCHANGED <<results, loaderShown, searchDisabled>>
    /\ lastEvent' = NoEvent
    /\ UNCHANGED <<inputValue, selectedContent, dropdowns, inflight, fetched, fnVars>>

\* callApi rejected (a failed status, a network error or an unparseable body):
\* the catch block and the finally block of the submit listener.
ApiFailure ==
    /\ pending # <<>>
    /\ results' = MessageOnly(<<>>, "API call failed")
    /\ Finally
    /\ lastEvent' = NoEvent
    /\ UNCHANGED <<inputValue, selectedContent, dropdowns, inflight, fetched, fnVars>>

\* searchContent without the check of an empty result list: results[0] is
\* undefined and fetchContentDetails throws into the catch block of the
\* submit listener.
SearchResponseUnchecked(found) ==
    /\ pending # <<>>
    /\ pending[1].call = "search"
    /\ IF Len(found) = 0
       THEN /\ results' = MessageOnly(<<>>, "Cannot read properties of undefined")
            /\ Finally
       ELSE /\ pending' = <<[pending[1] EXCEPT !.call = "providers", !.content = found[1]]>>
            /\ UNCHANGED <<results, loaderShown, searchDisabled>>
    /\ lastEvent' = NoEvent
    /\ UNCHANGED <<inputValue, selectedContent, dropdowns, inflight, fetched, fnVars>>

\* searchContent after its await.
SearchResponse(found) ==
    /\ pending # <<>>
    /\ pending[1].call = "search"
    /\ IF Len(found) = 0
       THEN /\ results' = MessageOnly(<<>>, "Could not find any results")
            /\ Finally
       ELSE /\ pending' = <<[pending[1] EXCEPT !.call = "providers", !.content = found[1]]>>
            /\ UNCHANGED <<results, loaderShown, searchDisabled>>
    /\ lastEvent' = NoEvent
    /\ UNCHANGED <<inputValue, selectedContent, dropdowns, inflight, fetched, fnVars>>

\* fetchContentDetails after its await: displayResults, then the rest of the
\* submit listener.
ProvidersResponse(allProviders) ==
    /\ pending # <<>>
    /\ pending[1].call = "providers"
    /\ LET content == pending[1].content
           mediaType == IF content.media_type = "movie" THEN "movie" ELSE "tv"
           title == <<[mediaType |-> mediaType, id |-> content.id]>>
           out == RenderingOf[allProviders]
           created == DropdownsOf(FreshSlot, out.items)
           Fresh(f, v) == [d \in DOMAIN f \cup created |-> IF d \in created THEN v ELSE f[d]]
       IN  /\ results' = IF Len(out.items) = 0 THEN MessageOnly(title, out.msg)
                          ELSE [slot |-> FreshSlot, title |-> title, msg |-> out.msg,
                                items |-> out.items]
           /\ dropdowns' = [d \in DOMAIN dropdowns \cup created |->
                              IF d \in created
                              THEN CreateDropdown(mediaType, content.id, d.code)
                              ELSE dropdowns[d]]
           /\ inflight' = Fresh(inflight, 0)
           /\ fetched' = Fresh(fetched, 0)
    /\ selectedContent' = IF pending[1].selected THEN <<>> ELSE selectedContent
    /\ Finally
    /\ lastEvent' = NoEvent
    /\ UNCHANGED <<inputValue, fnVars>>

\* A click listener that opens or closes its own dropdown and leaves the
\* other dropdowns as they are.
TagClickOwnOnly(d) ==
    /\ d \in Attached
    /\ LET wasOpen == dropdowns[d].show
           fetches == ~wasOpen /\ dropdowns[d].jwStatus = "loading"
       IN  /\ fetches => TotalInflight < MaxInflight
           /\ dropdowns' = [dropdowns EXCEPT ![d].show = ~wasOpen]
           /\ inflight' = IF fetches THEN [inflight EXCEPT ![d] = @ + 1] ELSE inflight
           /\ fetched' = IF fetches THEN [fetched EXCEPT ![d] = @ + 1] ELSE fetched
    /\ lastEvent' = NoEvent
    /\ UNCHANGED <<inputValue, selectedContent, searchDisabled, loaderShown, pending,
                   results, fnVars>>

\* The click listener of a clickable country tag, up to its await.
TagClick(d) ==
    /\ d \in Attached
    /\ LET wasOpen == dropdowns[d].show
           fetches == ~wasOpen /\ dropdowns[d].jwStatus = "loading"
       IN  /\ fetches => TotalInflight < MaxInflight
           /\ dropdowns' = [e \in DOMAIN dropdowns |->
                              IF e = d THEN [dropdowns[e] EXCEPT !.show = ~wasOpen]
                              ELSE IF e \in Open THEN [dropdowns[e] EXCEPT !.show = FALSE]
                              ELSE dropdowns[e]]
           /\ inflight' = IF fetches THEN [inflight EXCEPT ![d] = @ + 1] ELSE inflight
           /\ fetched' = IF fetches THEN [fetched EXCEPT ![d] = @ + 1] ELSE fetched
    /\ lastEvent' = NoEvent
    /\ UNCHANGED <<inputValue, selectedContent, searchDisabled, loaderShown, pending,
                   results, fnVars>>

\* The document click listener, for a click outside every clickable tag.
DocumentClick ==
    /\ dropdowns' = [e \in DOMAIN dropdowns |->
                       IF e \in Open THEN [dropdowns[e] EXCEPT !.show = FALSE]
                       ELSE dropdowns[e]]
    /\ lastEvent' = NoEvent
    /\ UNCHANGED <<inputValue, selectedContent, searchDisabled, loaderShown, pending,
                   results, inflight, fetched, fnVars>>

\* The dropdown in the current document that shows the same provider and country.
DocumentDropdown(d) ==
    IF \E e \in Attached : e.prov = d.prov /\ e.code = d.code
    THEN CHOOSE e \in Attached : e.prov = d.prov /\ e.code = d.code
    ELSE d

\* The first dropdown of the country in the current document, as
\* document.querySelector would find it by country.
FirstDropdownOfCountry(d) ==
    IF \E e \in Attached : e.code = d.code
    THEN CHOOSE e \in Attached :
            e.code = d.code /\ \A f \in Attached : f.code = d.code => e.prov <= f.prov
    ELSE d

\* The dropdown a click listener updates: the element its closure was given
\* by addDropdownListener.
ListenerDropdown(d) == d

\* The click listener of a tag after its await: the enrichment response
\* arrives and updateDropdownContent is applied to the listener's dropdown.
\* An exception ends the listener before updateDropdownContent.
EnrichResponse(d, sc) ==
    /\ d \in DOMAIN inflight
    /\ inflight[d] > 0
    /\ LET r == ScrapedIn[sc]
           t == ListenerDropdown(d)
           after == IF r.raised THEN dropdowns[t]
                    ELSE UpdateDropdownContent(dropdowns[t], r.data.justWatchUrl,
                                               r.data.providersInfo)
           left == [inflight EXCEPT ![d] = @ - 1]
           kept == Attached \cup {e \in DOMAIN left : left[e] > 0}
       IN  /\ dropdowns' = Restrict([dropdowns EXCEPT ![t] = after], kept)
           /\ inflight' = Restrict(left, kept)
           /\ fetched' = Restrict(fetched, kept)
           /\ lastEvent' = [op |-> "enrich", d |-> <<d>>, failure |-> FailureScenario(sc),
                            raised |-> r.raised,
                            data |-> IF r.raised THEN "none"
                                     ELSE IF r.data = EmptyData THEN "empty" ELSE "some",
                            status |-> IF after.jwStatus = after.qStatus
                                       THEN after.jwStatus ELSE "partial"]
    /\ UNCHANGED <<inputValue, selectedContent, searchDisabled, loaderShown, pending,
                   results, fnVars>>

Next ==
    \/ \E v \in InputValues : TypeInput(v)
    \/ Submit
    \/ \E item \in Suggestions : SuggestionClick(item)
    \/ ApiFailure
    \/ \E found \in SearchResults : SearchResponse(found)
    \/ \E allProviders \in ProviderData : ProvidersResponse(allProviders)
    \/ \E d \in Attached : TagClick(d)
    \/ DocumentClick
    \/ \E d \in DOMAIN inflight : \E sc \in EnrichScenarios : EnrichResponse(d, sc)

Spec == Init /\ [][Next]_vars

\* Every dropdown the model can create.
DropdownIds ==
    UNION {DropdownsOf(n, RenderingOf[allProviders].items) :
              n \in 0..MaxCarried, allProviders \in ProviderData}

\* The fetch of an enrichment settles and the browser resumes the listener
\* that awaits it.
LiveSpec ==
    /\ Init
    /\ [][Next]_vars
    /\ \A d \in DropdownIds : WF_vars(\E sc \in EnrichScenarios : EnrichResponse(d, sc))

AggNext == Aggregate

AggSpec == AggInit /\ [][AggNext]_vars

ScrapeNext == Scrape

ScrapeSpec == ScrapeInit /\ [][ScrapeNext]_vars

SortNext == SortTags

SortSpec == SortInit /\ [][SortNext]_vars

RelayNext == Handle

RelaySpec == RelayInit /\ [][RelayNext]_vars

(***************************************************************************)
(* SearchSpec: the search side of the page with its autocomplete list.     *)
(***************************************************************************)
\* What the user can type, and the length of the trimmed values.
SearchInputs == InputValues \cup {"d", "du"}

StringLength(v) == CASE v = "" -> 0 [] v = "d" -> 1 [] v = "du" -> 2 [] OTHER -> 4

\* The results of search/multi: nothing, a title, a person first.
SearchCandidates == SearchResults \cup {<<Person>>, <<Person, Movie>>}

AutocompleteResults == {<<>>, <<Show>>, <<Person, Movie>>}

\* What becomes of an autocomplete call: callApi throws or returns the results.
AutocompleteOutcomes ==
    {[ok |-> FALSE, results |-> <<>>]} \cup
    {[ok |-> TRUE, results |-> r] : r \in AutocompleteResults}

\* results.slice(0, 8)
Slice8(list) == SubSeq(list, 1, Min(Len(list), 8))

IsTitle(item) == item.media_type \in {"movie", "tv"}

\* displayAutocomplete(results), for the response of call n.
DisplayAutocomplete(container, list, n) ==
    IF Len(list) = 0 THEN [container EXCEPT !.display = "none"]
    ELSE [display |-> "block", items |-> SelectSeq(list, IsTitle), from |-> n]

\* The input listener.
InputListener(v) ==
    /\ inputValue' = v
    /\ IF StringLength(Trim(v)) < 2
       THEN /\ autocompleteContainer' = [autocompleteContainer EXCEPT !.display = "none"]
            /\ debounceTimer' = <<>>
       ELSE /\ debounceTimer' = <<Trim(v)>>
            /\ UNCHANGED autocompleteContainer
    /\ searchHistory' = [searchHistory EXCEPT !.submitted = FALSE]
    /\ lastEvent' = NoEvent
    /\ UNCHANGED <<selectedContent, searchDisabled, loaderShown, pending, results,
                   dropdowns, inflight, fetched, autocompleteCalls, pureVars>>

\* The debounce timer fires: fetchAutocomplete up to its await.
TimerFires ==
    /\ debounceTimer # <<>>
    /\ searchHistory.issued < MaxAutocomplete
    /\ autocompleteCalls' = autocompleteCalls \cup
          {[n |-> searchHistory.issued + 1, query |-> debounceTimer[1]]}
    /\ debounceTimer' = <<>>
    /\ searchHistory' = [searchHistory EXCEPT !.issued = @ + 1]
    /\ lastEvent' = NoEvent
    /\ UNCHANGED <<inputValue, selectedContent, searchDisabled, loaderShown, pending,
                   results, dropdowns, inflight, fetched, autocompleteContainer, pureVars>>

\* fetchAutocomplete after its await: displayAutocomplete, or the catch block.
AutocompleteResponse(call, outcome) ==
    /\ call \in autocompleteCalls
    /\ autocompleteCalls' = autocompleteCalls \ {call}
    /\ autocompleteContainer' =
          IF outcome.ok
          THEN DisplayAutocomplete(autocompleteContainer, Slice8(outcome.results), call.n)
          ELSE autocompleteContainer
    /\ lastEvent' = NoEvent
    /\ UNCHANGED <<inputValue, selectedContent, searchDisabled, loaderShown, pending,
                   results, dropdowns, inflight, fetched, debounceTimer, searchHistory,
                   pureVars>>

\* The submit listener with what it does to the autocomplete list.
SubmitListener(value, selected) ==
    /\ SubmitHandler(value, selected)
    /\ IF Trim(value) = ""
       THEN UNCHANGED <<autocompleteContainer, searchHistory>>
       ELSE /\ autocompleteContainer' = [autocompleteContainer EXCEPT !.display = "none"]
            /\ searchHistory' = [searchHistory EXCEPT !.submitted = TRUE]

\* A submit event of the form.
FormSubmit ==
    /\ ~searchDisabled
    /\ SubmitListener(inputValue, selectedContent)
    /\ lastEvent' = NoEvent
    /\ UNCHANGED <<inputValue, selectedContent, debounceTimer, autocompleteCalls,
                   pureVars>>

\* The click listener of an item of the autocomplete list while it is shown.
ItemClick(item) ==
    /\ autocompleteContainer.display = "block"
    /\ item \in Range(autocompleteContainer.items)
    /\ selectedContent' = <<item>>
    /\ inputValue' = item.title
    /\ IF searchDisabled
       THEN /\ autocompleteContainer' = [autocompleteContainer EXCEPT !.display = "none"]
            /\ UNCHANGED <<searchDisabled, loaderShown, pending, results, dropdowns,
                           inflight, fetched, searchHistory>>
       ELSE SubmitListener(item.title, <<item>>)
    /\ lastEvent' = NoEvent
    /\ UNCHANGED <<debounceTimer, autocompleteCalls, pureVars>>

\* The document click listener, for a click outside the form and outside
\* every clickable tag.
OutsideClick ==
    /\ autocompleteContainer' = [autocompleteContainer EXCEPT !.display = "none"]
    /\ dropdowns' = [e \in DOMAIN dropdowns |->
                       IF e \in Open THEN [dropdowns[e] EXCEPT !.show = FALSE]
                       ELSE dropdowns[e]]
    /\ lastEvent' = NoEvent
    /\ UNCHANGED <<inputValue, selectedContent, searchDisabled, loaderShown, pending,
                   results, inflight, fetched, debounceTimer, autocompleteCalls,
                   searchHistory, pureVars>>

\* A metadata call of the submit listener settles.
MetadataResponse ==
    \/ ApiFailure
    \/ \E found \in SearchCandidates : SearchResponse(found)
    \/ \E allProviders \in ProviderData : ProvidersResponse(allProviders)

SearchNext ==
    \/ \E v \in SearchInputs : InputListener(v)
    \/ TimerFires
    \/ \E call \in autocompleteCalls : \E outcome \in AutocompleteOutcomes :
          AutocompleteResponse(call, outcome)
    \/ FormSubmit
    \/ \E item \in {Movie, Show} : ItemClick(item)
    \/ OutsideClick
    \/ ApiFailure
    \/ \E found \in SearchCandidates : SearchResponse(found)
    \/ \E allProviders \in ProviderData : ProvidersResponse(allProviders)

SearchSpec == Init /\ [][SearchNext]_vars

\* The fetch of a metadata call settles and the submit listener resumes.
LiveSearchSpec == Init /\ [][SearchNext]_vars /\ WF_vars(MetadataResponse)

(***************************************************************************)
(* Properties of displayResults, checked under AggSpec.                    *)
(***************************************************************************)
\* The flatrate list of a country of the input, <<>> when it has none.
InputFlatrate(code) ==
    IF aggIn[1].val[code].flatrate = <<>> THEN <<>> ELSE aggIn[1].val[code].flatrate[1]

InputKeys == IF aggIn = <<>> THEN <<>> ELSE aggIn[1].keys

\* The (country, provider id) pairs of the flatrate lists of the input.
FlatratePairs ==
    {<<InputKeys[k], o.provider_id>> :
        <<k, o>> \in {p \in (1..Len(InputKeys)) \X Offers :
                        p[2] \in Range(InputFlatrate(InputKeys[p[1]]))}}

FlatrateIds == {p[2] : p \in FlatratePairs}

\* The place of an offer in the traversal: the country's position, then the
\* position in its flatrate list.
Places(id) ==
    {<<k, i>> \in (1..Len(InputKeys)) \X (1..(MaxOffers + 1)) :
        /\ i <= Len(InputFlatrate(InputKeys[k]))
        /\ InputFlatrate(InputKeys[k])[i].provider_id = id}

Before(p, q) == p[1] < q[1] \/ (p[1] = q[1] /\ p[2] < q[2])

FirstPlace(id) == CHOOSE p \in Places(id) : \A q \in Places(id) : p = q \/ Before(p, q)

FirstOffer(id) == InputFlatrate(InputKeys[FirstPlace(id)[1]])[FirstPlace(id)[2]]

OutItems == aggOut.out.items

RECURSIVE SumSizes(_, _)
SumSizes(items, i) == IF i > Len(items) THEN 0 ELSE items[i].size + SumSizes(items, i + 1)

\* C4: the sizes of the countries sets of the output add up to the number of
\* distinct (country, provider) pairs of the flatrate lists of the input, and
\* a provider that occurs only in another tier has no entry.
C4_PairsPreserved ==
    aggOut.done =>
        /\ SumSizes(OutItems, 1) = Cardinality(FlatratePairs)
        /\ \A i \in 1..Len(OutItems) : OutItems[i].id \in FlatrateIds

\* An input in which a country lists the same provider twice and another
\* provider only for rent.
C4_Witness ==
    /\ aggOut.done
    /\ Cardinality(FlatratePairs) = 2
    /\ \E k \in 1..Len(InputKeys) :
          /\ Len(InputFlatrate(InputKeys[k])) = 2
          /\ InputFlatrate(InputKeys[k])[1].provider_id = InputFlatrate(InputKeys[k])[2].provider_id
          /\ aggIn[1].val[InputKeys[k]].rent # <<>>

SortedBySize == \A i, j \in 1..Len(OutItems) : i < j => OutItems[i].size >= OutItems[j].size

\* C5 as stated: sorted non-increasing by size, entries of equal size in the
\* order in which their providers were first encountered in the input.
C5_TiesInEncounterOrder ==
    aggOut.done =>
        /\ SortedBySize
        /\ \A i, j \in 1..Len(OutItems) :
              (i < j /\ OutItems[i].size = OutItems[j].size)
                  => Before(FirstPlace(OutItems[i].id), FirstPlace(OutItems[j].id))

\* C5 as amended: sorted non-increasing by size, entries of equal size in
\* ascending order of their provider id.
C5_TiesInIdOrder ==
    aggOut.done =>
        /\ SortedBySize
        /\ \A i, j \in 1..Len(OutItems) :
              (i < j /\ OutItems[i].size = OutItems[j].size)
                  => OutItems[i].id < OutItems[j].id

\* Two entries of equal size whose providers were met in descending id order.
C5_Witness ==
    /\ aggOut.done
    /\ Len(OutItems) = 2
    /\ OutItems[1].size = OutItems[2].size
    /\ OutItems[1].id < OutItems[2].id
    /\ Before(FirstPlace(OutItems[2].id), FirstPlace(OutItems[1].id))

\* C6: one entry per provider id of the flatrate lists, carrying the name and
\* the logo of the first offer met with that id.
C6_OneEntryPerIdFirstSeen ==
    aggOut.done =>
        /\ {OutItems[i].id : i \in 1..Len(OutItems)} = FlatrateIds
        /\ Len(OutItems) = Cardinality(FlatrateIds)
        /\ \A i \in 1..Len(OutItems) :
              /\ OutItems[i].name = FirstOffer(OutItems[i].id).provider_name
              /\ OutItems[i].logo = FirstOffer(OutItems[i].id).logo_path

\* A provider id met first as "Netflix" and later, in another country, under
\* another name and logo.
C6_Witness ==
    /\ aggOut.done
    /\ Len(InputKeys) = 2
    /\ InputFlatrate(InputKeys[1]) = <<Netflix>>
    /\ InputFlatrate(InputKeys[2]) = <<NetflixBasic>>
    /\ Len(OutItems) = 1
    /\ OutItems[1].name = "Netflix"
    /\ OutItems[1].size = 2

NoFlatrateAnywhere ==
    \A k \in 1..Len(InputKeys) : aggIn[1].val[InputKeys[k]].flatrate = <<>>

NotAvailableMessages ==
    {"not available on streaming services in any country",
     "not available on any subscription streaming service"}

\* C7: absent provider data, an empty object and an object in which no
\* country has a flatrate list give no provider item (hence no tag and no
\* dropdown), a 'not available' message and no exception.
C7_EmptyInputs ==
    (aggOut.done /\ NoFlatrateAnywhere) =>
        /\ ~aggOut.out.raised
        /\ OutItems = <<>>
        /\ aggOut.out.msg \in NotAvailableMessages

\* Two countries that offer the title for rent only.
C7_Witness ==
    /\ aggOut.done
    /\ Len(InputKeys) = 2
    /\ NoFlatrateAnywhere
    /\ \A k \in 1..Len(InputKeys) : aggIn[1].val[InputKeys[k]].rent # <<>>
    /\ aggOut.out.msg = "not available on any subscription streaming service"

(***************************************************************************)
(* Properties of the page, checked under Spec and LiveSpec.                *)
(***************************************************************************)
\* The step resumes a click listener that awaited the enrichment of d.
Delivered(d) ==
    /\ d \in DOMAIN inflight
    /\ inflight[d] > 0
    /\ d \notin DOMAIN inflight' \/ inflight'[d] < inflight[d]

\* The enrichment fetches issued for the country of d within d's rendering.
FetchesForCountryOf(d) ==
    Sum(fetched, {e \in DOMAIN fetched : e.slot = d.slot /\ e.code = d.code})

\* C1: within one title resolution at most one enrichment fetch is issued per
\* country, under any sequence of expansions, collapses and re-expansions.
C1_OneFetchPerCountry == \A d \in DOMAIN fetched : FetchesForCountryOf(d) <= 1

\* C2: updateDropdownContent is never applied to a dropdown whose status is
\* already 'loaded'.
C2_WrittenOnce ==
    [][\A d \in DOMAIN inflight :
          (Delivered(d) /\ ~lastEvent'.raised) => dropdowns[d].jwStatus = "loading"]_vars

\* Every dropdown of the current result belongs to the title shown, and a
\* loaded one was loaded by a fetch of its own.
CurrentResultOwnsItsDropdowns ==
    \A e \in Attached :
        /\ e \in DOMAIN dropdowns
        /\ results.title # <<>>
        /\ dropdowns[e].url = [mediaType |-> results.title[1].mediaType,
                               tmdbId |-> results.title[1].id, locale |-> e.code]
        /\ dropdowns[e].jwStatus = "loaded" => fetched[e] > 0

\* C3: an enrichment response that arrives after a new search was started
\* changes nothing of the current result, and nothing of the previous title
\* can be reached from the current result.
C3_LateResponseDropped ==
    [][/\ \A d \in DOMAIN inflight :
            (Delivered(d) /\ d \notin Attached) =>
                /\ results' = results
                /\ Attached' = Attached
                /\ \A e \in Attached : dropdowns'[e] = dropdowns[e]
       /\ CurrentResultOwnsItsDropdowns']_vars

\* The response for the US dropdown of the previous title has just arrived
\* while the US dropdown of the current title is still loading.
C3_Witness ==
    /\ lastEvent.op = "enrich"
    /\ lastEvent.status = "loaded"
    /\ lastEvent.d[1] \notin Attached
    /\ \E e \in Attached :
          /\ e.code = lastEvent.d[1].code
          /\ e.prov = lastEvent.d[1].prov
          /\ dropdowns[e].jwStatus = "loading"

\* C8: an accepted submit empties the displayed result, nothing is displayed
\* while the resolution runs, and what is displayed when it ends is a message
\* alone or the rendering of the new title with freshly created dropdowns.
C8_PreviousResultDiscarded ==
    [][/\ (pending = <<>> /\ pending' # <<>>) => (results' = ClearedResults /\ Attached' = {})
       /\ pending' # <<>> => results' = ClearedResults
       /\ (pending # <<>> /\ pending' = <<>>) =>
             \/ results'.items = <<>> /\ results'.msg # ""
             \/ /\ results'.title[1].id = pending[1].content.id
                /\ \A e \in Attached' :
                      /\ e \notin DOMAIN dropdowns
                      /\ dropdowns'[e] = CreateDropdown(results'.title[1].mediaType,
                                                        results'.title[1].id, e.code)
                      /\ inflight'[e] = 0
                      /\ fetched'[e] = 0]_vars

\* A submit was accepted while the previous title's result had an enrichment
\* in flight, and the result is empty.
C8_Witness ==
    /\ pending # <<>>
    /\ results = ClearedResults
    /\ DOMAIN dropdowns # {}

\* C9: a failure on the enrichment path, at the relay or at the client, never
\* raises; the listener gets the empty result, the dropdown shows its two
\* 'not found' states, and the results message and the state of the running
\* or finished resolution stay as they were.
C9_EnrichmentFailureAbsorbed ==
    [][\A d \in DOMAIN inflight :
          (Delivered(d) /\ lastEvent'.failure) =>
              /\ ~lastEvent'.raised
              /\ lastEvent'.data = "empty"
              /\ d \in DOMAIN dropdowns' =>
                    /\ dropdowns'[d].jwHref = "#"
                    /\ dropdowns'[d].jwText = "JustWatch link not found"
                    /\ dropdowns'[d].qText = "No streaming quality info."
                    /\ dropdowns'[d].qItems = <<>>
              /\ results' = results
              /\ UNCHANGED <<pending, searchDisabled, loaderShown>>]_vars

\* A failed enrichment has just been applied to a dropdown of the displayed
\* result.
C9_Witness ==
    /\ lastEvent.op = "enrich"
    /\ lastEvent.failure
    /\ lastEvent.d[1] \in Attached
    /\ dropdowns[lastEvent.d[1]].jwText = "JustWatch link not found"
    /\ results.msg = ""
    /\ pending = <<>>

\* A click listener of d is suspended at its await.
EnrichmentPending(d) == d \in DOMAIN inflight /\ inflight[d] > 0

\* A listener of d has just finished and left both parts of d 'loaded'.
EnrichmentSettled(d) ==
    /\ lastEvent.op = "enrich"
    /\ lastEvent.d = <<d>>
    /\ lastEvent.status = "loaded"

\* C10: every enrichment that was started ends, and the listener that ends
\* leaves its dropdown marked 'loaded', whether the fetch succeeded or failed.
C10_EnrichmentEnds ==
    /\ \A d \in DropdownIds : []<>(~EnrichmentPending(d))
    /\ [][\A d \in DOMAIN inflight : Delivered(d) => EnrichmentSettled(d)']_vars

\* A failed enrichment has ended with its dropdown 'loaded'.
C10_Witness ==
    /\ lastEvent.op = "enrich"
    /\ lastEvent.failure
    /\ lastEvent.status = "loaded"
    /\ ~EnrichmentPending(lastEvent.d[1])
    /\ fetched[lastEvent.d[1]] > 0

\* C11: the completion of an enrichment changes the link and the quality part
\* of the dropdown its listener was given and nothing else: every other
\* dropdown, its pending fetches included, stays as it was.
C11_OnlyOwnTagChanges ==
    [][\A d \in DOMAIN inflight :
          Delivered(d) =>
              /\ \A e \in DOMAIN dropdowns' :
                    e # d => /\ e \in DOMAIN dropdowns
                             /\ dropdowns'[e] = dropdowns[e]
                             /\ inflight'[e] = inflight[e]
                             /\ fetched'[e] = fetched[e]
              /\ \A e \in Attached : e \in DOMAIN dropdowns'
              /\ d \in DOMAIN dropdowns' =>
                    /\ dropdowns'[d].show = dropdowns[d].show
                    /\ dropdowns'[d].url = dropdowns[d].url]_vars

\* A response has just been applied to one dropdown while the fetch of
\* another dropdown of the same result is still awaited.
C11_Witness ==
    /\ lastEvent.op = "enrich"
    /\ lastEvent.d[1] \in Attached
    /\ dropdowns[lastEvent.d[1]].jwStatus = "loaded"
    /\ \E e \in Attached :
          /\ e # lastEvent.d[1]
          /\ inflight[e] > 0
          /\ dropdowns[e].jwStatus = "loading"

(***************************************************************************)
(* Properties of one enrichment request, checked under ScrapeSpec.         *)
(***************************************************************************)
\* The relay's scraper ran: the client's fetch reached a relay with its key.
RelayRan == scrapeOut.done /\ scrapeOut.relay # <<>>

ScrapedPage == scrapeIn[1].page

\* What the relay's scrapeTmdbWatchPage returned.
RelayData == scrapeOut.relay[1].data

\* The offers of the stream sections of a page.
StreamLis(page) ==
    {page.sections[i].lis[j] :
        <<i, j>> \in {p \in (1..Len(page.sections)) \X (1..(MaxLis + 2)) :
                        /\ page.sections[p[1]].h3 # <<>>
                        /\ page.sections[p[1]].h3[1] \in {" Stream ", "STREAM", "Stream", "stream"}
                        /\ p[2] <= Len(page.sections[p[1]].lis)}}

\* The offers of a set whose title has the given text after its first "on ".
OffersNamed(lis, name) ==
    {li \in lis : /\ li.title # <<>>
                  /\ MatchOn(li.title[1]).matched
                  /\ MatchOn(li.title[1]).name = name}

\* The tier a quality class stands for.
TierOf(class) ==
    CASE class = "ott_filter_4k" -> "4K"
      [] class = "ott_filter_hd" -> "HD"
      [] class = "ott_filter_sd" -> "SD"

\* C12 as stated: the page is fetched directly first; when that fails it is
\* fetched once more through the proxy, with the same URL percent-encoded as
\* a parameter; the fetch has failed only when both have failed.
C12_DirectThenFallback ==
    (RelayRan /\ ~TypeErrorIn(ScrapedPage)) =>
        LET url == TmdbLinkUrl("movie", Movie.id, "US")
            direct == scrapeIn[1].routes["direct"]
            proxy == scrapeIn[1].routes["proxy"]
        IN  /\ scrapeOut.gets = IF direct = "page" THEN <<url>> ELSE <<url, ProxyUrl(url)>>
            /\ (direct = "page" \/ proxy = "page") => RelayData = ExtractPage(ScrapedPage)

\* C13: one enrichment request issues at most two retrievals of the page,
\* whether they succeed or fail.
C13_AtMostTwoRetrievals == scrapeOut.done => Len(scrapeOut.gets) <= 2

\* The one retrieval of a request has failed and nothing was fetched again.
C13_Witness ==
    /\ RelayRan
    /\ scrapeIn[1].routes[scrapeIn[1].variant] # "page"
    /\ Len(scrapeOut.gets) = 1
    /\ scrapeOut.data = EmptyData

\* A result of the extractor: a link or none, and a map from distinct
\* provider names to duplicate-free lists of tiers.
WellFormed(data) ==
    /\ DOMAIN data = {"justWatchUrl", "providersInfo"}
    /\ Len(data.justWatchUrl) <= 1
    /\ IsInjective(data.providersInfo.keys)
    /\ DOMAIN data.providersInfo.val = Range(data.providersInfo.keys)
    /\ \A k \in Range(data.providersInfo.keys) :
          /\ IsInjective(data.providersInfo.val[k])
          /\ Range(data.providersInfo.val[k]) \subseteq {"SD", "HD", "4K"}

\* C14: whatever the page holds or lacks, the relay's scrapeTmdbWatchPage
\* returns a well-formed result and does not raise.
C14_ExtractorTotal ==
    RelayRan => /\ ~scrapeOut.relay[1].raised
                /\ WellFormed(RelayData)

\* A served page on which the extraction ran into a TypeError, and the empty
\* result came back.
C14_Witness ==
    /\ RelayRan
    /\ scrapeIn[1].routes[scrapeIn[1].variant] = "page"
    /\ TypeErrorIn(ScrapedPage)
    /\ ~scrapeOut.relay[1].raised
    /\ RelayData = EmptyData

\* str.trim(), for the space.
RECURSIVE TrimSpaces(_)
TrimSpaces(str) ==
    IF Len(str) = 0 THEN str
    ELSE IF str[1] = " " THEN TrimSpaces(SubSeq(str, 2, Len(str)))
    ELSE IF str[Len(str)] = " " THEN TrimSpaces(SubSeq(str, 1, Len(str) - 1))
    ELSE str

\* The trimmed text after the last "on " of a title that has one.
LastOnName(title) ==
    LET i == CHOOSE x \in OnPositions(title) : \A y \in OnPositions(title) : y <= x
    IN  TrimSpaces(SubSeq(title, i + 3, Len(title)))

\* The provider names of the offers of a set, as C15 states them.
LastOnNames(lis) ==
    {LastOnName(li.title[1]) :
        li \in {l \in lis : /\ l.title # <<>>
                            /\ OnPositions(l.title[1]) # {}
                            /\ Len(LastOnName(l.title[1])) > 0}}

\* C15 as stated: the provider names of the result are the trimmed texts
\* after the last "on " of the titles of the offers.
C15_NameAfterLastOn ==
    (RelayRan /\ scrapeIn[1].routes[scrapeIn[1].variant] = "page"
              /\ ~TypeErrorIn(ScrapedPage)
              /\ \A li \in StreamLis(ScrapedPage) :
                    li.title # <<>> => li.title[1] # TitleInherited) =>
        Range(RelayData.providersInfo.keys) = LastOnNames(StreamLis(ScrapedPage))

\* C16: every provider and every tier of the result comes from an offer of a
\* stream section, and a page without a stream section gives the empty map.
C16_OnlyStreamSections ==
    RelayRan =>
        /\ \A k \in Range(RelayData.providersInfo.keys) :
              /\ OffersNamed(StreamLis(ScrapedPage), k) # {}
              /\ \A t \in Range(RelayData.providersInfo.val[k]) :
                    \E li \in OffersNamed(StreamLis(ScrapedPage), k) :
                        \E c \in li.classes \cap QualityClasses : TierOf(c) = t
        /\ StreamLis(ScrapedPage) = {} => RelayData.providersInfo = EmptyInfo

\* A rent section offers N and a stream section offers H alone: the result
\* knows H and does not know N.
C16_Witness ==
    /\ RelayRan
    /\ \E i \in 1..Len(ScrapedPage.sections) :
          /\ ScrapedPage.sections[i].h3 = <<"Rent">>
          /\ OffersNamed(Range(ScrapedPage.sections[i].lis), <<"N">>) # {}
    /\ OffersNamed(StreamLis(ScrapedPage), <<"N">>) = {}
    /\ RelayData.providersInfo.keys = << <<"H">> >>

\* C17: the tiers of a provider of the result are the tiers of all its
\* offers in the stream sections together, each once.
C17_TiersAreUnion ==
    RelayRan =>
        \A k \in Range(RelayData.providersInfo.keys) :
            /\ Range(RelayData.providersInfo.val[k]) =
                  {TierOf(c) :
                      c \in UNION {li.classes \cap QualityClasses :
                                     li \in OffersNamed(StreamLis(ScrapedPage), k)}}
            /\ IsInjective(RelayData.providersInfo.val[k])

\* Two offers of N, the first with HD, the second with SD and HD: N has both
\* tiers, HD once.
C17_Witness ==
    /\ RelayRan
    /\ Len(ScrapedPage.sections) = 1
    /\ ScrapedPage.sections[1].lis =
          <<[title |-> <<TitleN>>, classes |-> {"ott_filter_hd"}],
            [title |-> <<TitleN>>, classes |-> {"ott_filter_sd", "ott_filter_hd"}]>>
    /\ RelayData.providersInfo.val[<<"N">>] = <<"HD", "SD">>

\* The place of a tier in the order SD < HD < 4K.
TierRank(t) ==
    CASE t = "SD" -> 1
      [] t = "HD" -> 2
      [] t = "4K" -> 3

\* C18 as stated: the tiers of every provider are shown in the order SD, HD,
\* 4K, each once.
C18_CanonicalTierOrder ==
    scrapeOut.done =>
        \A i \in 1..Len(scrapeOut.dropdown.qItems) :
            \A a, b \in 1..Len(scrapeOut.dropdown.qItems[i].tags) :
                a < b => TierRank(scrapeOut.dropdown.qItems[i].tags[a])
                            < TierRank(scrapeOut.dropdown.qItems[i].tags[b])

\* No provider of the map has a tier.
NoTierIn(providersInfo) ==
    \A k \in Range(providersInfo.keys) : Len(providersInfo.val[k]) = 0

\* C19 as stated: without a link the link part says so, and without any tier
\* the quality part says so.
C19_ExplicitUnavailable ==
    (scrapeOut.done /\ ~scrapeOut.raised) =>
        /\ scrapeOut.data.justWatchUrl = <<>> =>
              /\ scrapeOut.dropdown.jwText = "JustWatch link not found"
              /\ scrapeOut.dropdown.jwHref = "#"
        /\ NoTierIn(scrapeOut.data.providersInfo) =>
              scrapeOut.dropdown.qText = "No streaming quality info."

(***************************************************************************)
(* Properties of the country tags of one provider item, checked under      *)
(* SortSpec.                                                               *)
(***************************************************************************)
\* The codes with a display name in the model.
NamedCodes == {"GB", "US", "XK"}

\* C20: the tags of a provider item are its countries, each once, in
\* ascending order of the display names they show, and a code without a
\* display name shows the code in upper case.
C20_TagsByDisplayName ==
    sortOut.done =>
        /\ Len(sortOut.tags) = Len(sortIn[1])
        /\ {sortOut.tags[i].code : i \in 1..Len(sortOut.tags)} = Range(sortIn[1])
        /\ \A i, j \in 1..Len(sortOut.tags) :
              i < j => NameRank(sortOut.tags[i].text) <= NameRank(sortOut.tags[j].text)
        /\ \A i \in 1..Len(sortOut.tags) :
              /\ sortOut.tags[i].code \in {"QQ", "qq"} => sortOut.tags[i].text = "QQ"
              /\ sortOut.tags[i].code \in NamedCodes =>
                    sortOut.tags[i].text \in {"Kosovo", "United Kingdom", "United States"}

\* GB, a code without a name in lower case, and XK were inserted in the order
\* of their codes and are shown as Kosovo, QQ, United Kingdom.
C20_Witness ==
    /\ sortOut.done
    /\ sortIn[1] = <<"GB", "qq", "XK">>
    /\ [i \in 1..3 |-> sortOut.tags[i].text] = <<"Kosovo", "QQ", "United Kingdom">>

\* The dropdowns of the current result under the tag of a code in a provider item.
DropdownsUnder(i, code) == {d \in Attached : d.prov = i /\ d.code = code}

\* C21: a country outside JUSTWATCH_SUPPORTED_COUNTRIES never has a dropdown,
\* open or closed, and no enrichment fetch is ever issued for it, while every
\* tag of an allow-listed country has exactly one dropdown.
C21_AllowListOnly ==
    /\ \A d \in DOMAIN dropdowns \cup DOMAIN inflight \cup DOMAIN fetched :
          d.code \in JUSTWATCH_SUPPORTED_COUNTRIES
    /\ \A i \in 1..Len(results.items) : \A j \in 1..Len(results.items[i].tags) :
          LET tag == results.items[i].tags[j]
          IN  Cardinality(DropdownsUnder(i, tag.code)) =
                 IF tag.code \in JUSTWATCH_SUPPORTED_COUNTRIES THEN 1 ELSE 0

\* A provider item shows Kosovo next to the United States, whose dropdown is
\* open and has fetched.
C21_Witness ==
    \E i \in 1..Len(results.items) :
        /\ \E j \in 1..Len(results.items[i].tags) :
              results.items[i].tags[j].code \notin JUSTWATCH_SUPPORTED_COUNTRIES
        /\ \E d \in Attached : d.prov = i /\ dropdowns[d].show /\ fetched[d] > 0

(***************************************************************************)
(* Properties of the search side, checked under SearchSpec and             *)
(* LiveSearchSpec.                                                         *)
(***************************************************************************)
\* C22: when the search returns no candidate, the submit listener ends with
\* the "could not find" message alone in resultsContainer, no metadata call
\* outstanding, the loader hidden and the search button enabled.
C22_ZeroResultsIsTerminal ==
    [][SearchResponse(<<>>) =>
          /\ pending' = <<>>
          /\ results' = MessageOnly(<<>>, "Could not find any results")
          /\ Attached' = {}
          /\ ~loaderShown'
          /\ ~searchDisabled']_vars

\* A typed query was searched and nothing was found.
C22_Witness ==
    /\ results = MessageOnly(<<>>, "Could not find any results")
    /\ pending = <<>>
    /\ ~searchDisabled
    /\ searchHistory.submitted

\* C23: when a metadata call fails (the search or the provider lookup), the
\* submit listener issues no further call, resultsContainer holds the failure
\* message alone, and no provider item is shown.
C23_FailureNotRetried ==
    [][ApiFailure =>
          /\ pending' = <<>>
          /\ results' = MessageOnly(<<>>, "API call failed")
          /\ Attached' = {}]_vars

\* The provider lookup of a found title has failed.
C23_Witness ==
    /\ results = MessageOnly(<<>>, "API call failed")
    /\ pending = <<>>
    /\ searchHistory.submitted
    /\ selectedContent = <<>>

(***************************************************************************)
(* Properties of the relay's handler, checked under RelaySpec.             *)
(***************************************************************************)
\* The request carries the key, in its URL or in a header.
Carries(request) ==
    \/ ApiKey \in Range(request.url)
    \/ \E i \in 1..Len(request.headers) : ApiKey \in Range(request.headers[i].value)

ToMetadataApi(request) == request.url[1] = "https://api.themoviedb.org/3/"

\* C24: the key travels only in requests the relay sends to the metadata API:
\* no URL the client builds holds it, no fetch of a watch page carries it, no
\* response body of the relay holds it; and without a key in the environment
\* the relay answers 500 and makes no upstream request.
C24_KeyOnlyToMetadataApi ==
    /\ \A url \in ClientUrls : ApiKey \notin Range(url)
    /\ relayOut.done =>
          /\ \A i \in 1..Len(relayOut.requests) :
                Carries(relayOut.requests[i]) => ToMetadataApi(relayOut.requests[i])
          /\ ApiKey \notin relayOut.strings
          /\ relayIn[1].env = <<>> =>
                relayOut.res.status = 500 /\ relayOut.requests = <<>>

\* The relay holds the key, has sent it to the metadata API and answers a
\* failed fetch with a message that names the URL.
C24_Witness ==
    /\ relayOut.done
    /\ relayIn[1].env # <<>>
    /\ relayIn[1].api = "error"
    /\ Len(relayOut.requests) = 1
    /\ Carries(relayOut.requests[1])
    /\ relayOut.res.status = 500
    /\ "request to " \in relayOut.strings

\* The step starts a run of the submit listener, the step ends one.
SubmissionStarts == pending = <<>> /\ pending' # <<>>

SubmissionEnds == pending # <<>> /\ pending' = <<>>

\* C25: whenever a run of the submit listener ends, selectedContent is null,
\* and a run that looks up a selection is the one started by the click that
\* made the selection: a typed query submitted later is searched as typed.
C25_SelectionConsumed ==
    [][/\ SubmissionEnds => selectedContent' = <<>>
       /\ (SubmissionStarts /\ pending'[1].selected) =>
             selectedContent = <<>> /\ selectedContent' # <<>>]_vars

(***************************************************************************)
(* More properties of the page, checked under Spec.                        *)
(***************************************************************************)
\* C26: at most one dropdown of the document is open, whatever tags are
\* clicked, whatever enrichment fetches are in flight and whenever their
\* responses arrive; the click of a closed tag leaves its dropdown alone
\* open, the click of an open tag leaves none open.
C26_AtMostOneOpen ==
    /\ [](Cardinality(Open) <= 1)
    /\ [][\A d \in Attached :
            TagClick(d) => Open' = IF dropdowns[d].show THEN {} ELSE {d}]_vars

\* A dropdown is open while the response for another dropdown of the same
\* result, opened before it and closed by its opening, has just arrived.
C26_Witness ==
    /\ lastEvent.op = "enrich"
    /\ lastEvent.d[1] \in Attached
    /\ ~dropdowns[lastEvent.d[1]].show
    /\ \E e \in Open : e # lastEvent.d[1] /\ inflight[e] > 0

\* C27: while a metadata call of the submit listener is awaited the button is
\* disabled and the loader is shown; the listener ends with the loader hidden
\* and the button enabled whether it found providers, found nothing or
\* failed; and every run of the listener does end once its calls settle.
C27_ResolutionEnds ==
    /\ [](pending # <<>> => searchDisabled /\ loaderShown)
    /\ [][SubmissionEnds => ~loaderShown' /\ ~searchDisabled']_vars
    /\ (searchDisabled \/ loaderShown) ~> (pending = <<>> /\ ~loaderShown /\ ~searchDisabled)

\* A run of the submit listener has ended with provider items on the page.
C27_Witness ==
    /\ pending = <<>>
    /\ ~loaderShown
    /\ ~searchDisabled
    /\ searchHistory.submitted
    /\ Len(results.items) > 0

\* mediaType of fetchContentDetails: the kind the provider lookup asks for.
LookupKind(content) == IF content.media_type = "movie" THEN "movie" ELSE "tv"

\* C28: the provider lookup of a general search is for a candidate whose
\* media type is movie or tv, under that media type.
C28_OnlyTitlesLookedUp ==
    (pending # <<>> /\ pending[1].call = "providers" /\ ~pending[1].selected) =>
        /\ pending[1].content.media_type \in {"movie", "tv"}
        /\ LookupKind(pending[1].content) = pending[1].content.media_type

\* C29: after an accepted submit the autocomplete list stays hidden until the
\* next input event, whatever timer was pending and whatever autocomplete
\* call was in flight at the submit; and the list is never refilled from a
\* call issued before the one it was last filled from.
C29_HiddenAfterSubmit ==
    /\ [](searchHistory.submitted => autocompleteContainer.display = "none")
    /\ [][autocompleteContainer'.from >= autocompleteContainer.from]_vars

====
